---- MODULE Spec2Model ----
(***************************************************************************)
(* Model of the Multimodal-Rag repository.                                 *)
(*                                                                         *)
(*   Spec        the query side: submit_query_endpoint / invoke_worker     *)
(*               (app_api_handler.py), handler / invoke_rag                *)
(*               (app_work_handler.py), QueryModel (query_model.py) and    *)
(*               query_rag (rag_app/query_rag.py), over a DynamoDB table   *)
(*               and a Lambda "Event" invocation channel.                  *)
(*   SpecStore   the HTTP endpoints alone, with get_query_endpoint and     *)
(*               QueryModel.get_item reading the table.                    *)
(*   SpecChromaDb  the request threads of one process inside               *)
(*               get_chroma_db (rag_app/get_chroma_db.py).                 *)
(*   SpecContext the context assembly of query_rag over every ranked       *)
(*               result list of up to k entries.                           *)
(*   SpecIngest  the ingestion CLI (populate_database.py): main,           *)
(*               load_documents, split_documents, add_to_chroma,           *)
(*               clear_database, one operating-system process per run.     *)
(*                                                                         *)
(* Texts are sequences of tokens, so that formatting (an f-string, a join) *)
(* is a concatenation and "contains" is a real test.                       *)
(***************************************************************************)
EXTENDS Integers, Sequences, FiniteSets, TLC

VARIABLES
    workerName,   \* WORKER_LAMBDA_NAME is set (app_api_handler.py:13)
    table,        \* the DynamoDB table: query_id -> stored item
    apiPc,        \* per submission: position inside submit_query_endpoint
    newQuery,     \* per submission: the local new_query object
    apiResult,    \* per submission: what the HTTP caller received
    sent,         \* payloads handed to lambda_client.invoke (Event invocations)
    wPc,          \* per worker invocation: position inside handler/invoke_rag
    wItem,        \* per worker invocation: the local query_item object
    putLog,       \* history: per job id, how many pending / complete items put_item wrote
    ragLog,       \* history: per query_rag call, the job it served and what retrieval
                  \* and generation did
    fetched,      \* the last get_query_endpoint call not yet followed by a write to
                  \* its id: the id, the backend outcome, what get_item returned
    chroma,       \* ingestion: the persisted Chroma collection, id -> entry
    runs,         \* ingestion: per finished run, what it did
    corpus,       \* ingestion: the content extracted from the source directory
    IS_USING_IMAGE_RUNTIME,  \* get_chroma_db.py:14, fixed when the module is imported
    CHROMA_DB_INSTANCE,      \* get_chroma_db.py:17, the module global
    tmpDir,       \* what the runtime chroma path under /tmp holds
    tPc,          \* per request thread: position inside get_chroma_db
    tCalls,       \* per request thread: get_chroma_db calls it has started
    constructed,  \* history: how many times Chroma(...) was constructed in the process
    returned,     \* history: the instances get_chroma_db calls have returned
    retrieved,    \* context assembly: the ranked results of one similarity search
    context       \* context assembly: the context_text built from them

jobVars == <<workerName, table, apiPc, newQuery, apiResult, sent, wPc, wItem,
             putLog, ragLog, fetched>>
ingestVars == <<chroma, runs, corpus>>
chromaDbVars == <<IS_USING_IMAGE_RUNTIME, CHROMA_DB_INSTANCE, tmpDir, tPc, tCalls,
                  constructed, returned>>
contextVars == <<retrieved, context>>
vars == <<workerName, table, apiPc, newQuery, apiResult, sent, wPc, wItem,
          putLog, ragLog, fetched, chroma, runs, corpus,
          IS_USING_IMAGE_RUNTIME, CHROMA_DB_INSTANCE, tmpDir, tPc, tCalls,
          constructed, returned, retrieved, context>>

----------------------------------------------------------------------------
(* Bounds *)

\* submissions (uuid4 values) the model follows
MaxJobs == 2
\* worker invocations the Lambda substrate starts (at-least-once: may exceed MaxJobs)
MaxWorkers == 2

\* request threads of one server process, and get_chroma_db calls each may make
MaxThreads == 2
MaxCalls == 2

JobIds == 1..MaxJobs
Threads == 1..MaxThreads
Workers == 1..MaxWorkers
\* an id no submission ever generated
UnknownId == MaxJobs + 1

QueryTexts == {"Q"}
CreateTimes == {1700000000}

\* Python's None, for the one Optional field (query_model.py:28): a value no text equals
None == <<"None">>

----------------------------------------------------------------------------
(* QueryModel, query_model.py *)

OptionalFields == {"answer_text"}

\* QueryModel(query_text=...): the field defaults of lines 25-30
NewQueryModel(id, now, text) ==
    [query_id |-> id, create_time |-> now, query_text |-> text,
     answer_text |-> None, sources |-> <<>>, is_complete |-> FALSE]

\* the defaults pydantic fills in (answer_text, sources, is_complete)
FieldDefault(f) ==
    CASE f = "answer_text" -> None
      [] f = "sources" -> <<>>
      [] f = "is_complete" -> FALSE

QueryFields == {"query_id", "create_time", "query_text", "answer_text",
                "sources", "is_complete"}

\* as_ddb_item: the dict of the model without the None-valued entries
AsDdbItem(q) ==
    [f \in {g \in DOMAIN q : ~(g \in OptionalFields /\ q[g] = None)} |-> q[f]]

\* a get_item that rebuilds the model from the two required keys only
FromItemKeyFieldsOnly(item) ==
    [f \in QueryFields |->
        IF f \in DOMAIN item /\ f \in {"query_id", "create_time", "query_text"}
        THEN item[f] ELSE FieldDefault(f)]

\* a construction that lets the create_time default factory run again
FromItemRestamped(item) ==
    [f \in QueryFields |->
        IF f = "create_time" THEN item[f] + 1
        ELSE IF f \in DOMAIN item THEN item[f] ELSE FieldDefault(f)]

\* cls(**item): the keys of the item, defaults for the rest
FromItem(item) ==
    [f \in QueryFields |-> IF f \in DOMAIN item THEN item[f] ELSE FieldDefault(f)]

\* query.model_dump(): every field, None included (the worker payload)
ModelDump(q) == [f \in QueryFields |-> q[f]]

\* a conditional put (attribute_not_exists): an existing item is left as it is
TablePutIfAbsent(t, item) ==
    [i \in DOMAIN t \cup {item.query_id} |->
        IF i \in DOMAIN t THEN t[i] ELSE item]

\* table.put_item(Item=item): upsert keyed by query_id
TablePut(t, item) ==
    [i \in DOMAIN t \cup {item.query_id} |->
        IF i = item.query_id THEN item ELSE t[i]]

----------------------------------------------------------------------------
(* query_rag, rag_app/query_rag.py *)

\* k of similarity_search_with_score
TopK == 5

\* entries of the index as the retriever returns them (page_content, metadata);
\* text units carry no "type" key (populate_database.py:36)
DocText  == [page_content |-> <<"robots">>,
             metadata |-> [source |-> "a.pdf", page |-> 1,
                           id |-> <<"a.pdf", 1, "text", "h1">>]]
DocTable == [page_content |-> <<"c1", "\t", "c2">>,
             metadata |-> [source |-> "a.pdf", page |-> 1, type |-> "table",
                           table_index |-> 0,
                           id |-> <<"a.pdf", 1, "table", "h2">>]]
DocImage == [page_content |-> <<"aGk=">>,
             metadata |-> [source |-> "a.pdf", page |-> 2, type |-> "image",
                           image_index |-> 0,
                           id |-> <<"a.pdf", 2, "image", "h3">>]]

\* further entries of the index, so that each kind can occur twice in one result list
DocTextLater  == [page_content |-> <<"gears">>,
                  metadata |-> [source |-> "a.pdf", page |-> 3,
                                id |-> <<"a.pdf", 3, "text", "h4">>]]
DocTableLater == [page_content |-> <<"r1", "\t", "r2">>,
                  metadata |-> [source |-> "a.pdf", page |-> 3, type |-> "table",
                                table_index |-> 0,
                                id |-> <<"a.pdf", 3, "table", "h5">>]]
DocImageLater == [page_content |-> <<"Ynll">>,
                  metadata |-> [source |-> "a.pdf", page |-> 3, type |-> "image",
                                image_index |-> 1,
                                id |-> <<"a.pdf", 3, "image", "h6">>]]

\* what similarity_search_with_score may return for a query (ranked), in Spec: one
\* entry, or the full k entries
RetrievalResults ==
    {<<DocText>>, <<DocImage, DocTable, DocText, DocTableLater, DocTextLater>>}

\* what the generation collaborator may do with a prompt
GenAnswers == {"AIR Lab"}
GenErrors == {"throttled"}
GenOutcomes == [kind : {"ok"}, val : GenAnswers] \cup [kind : {"raise"}, val : GenErrors]

\* dict.get(key, default)
MetaGet(doc, key, default) ==
    IF key \in DOMAIN doc.metadata THEN doc.metadata[key] ELSE default

RECURSIVE Join(_, _)
\* sep.join(parts) over texts
Join(parts, sep) ==
    IF parts = <<>> THEN <<>>
    ELSE IF Len(parts) = 1 THEN parts[1]
    ELSE parts[1] \o <<sep>> \o Join(Tail(parts), sep)

RECURSIVE SelectType(_, _)
\* the payloads of the results of one content type, in rank order (lines 56-64)
SelectType(results, type) ==
    IF results = <<>> THEN <<>>
    ELSE LET doc == Head(results)
             rest == SelectType(Tail(results), type)
         IN IF MetaGet(doc, "type", "text") = type
            THEN <<IF type = "image"
                   THEN <<"Image (Base64): ">> \o doc.page_content
                   ELSE doc.page_content>> \o rest
            ELSE rest

\* an assembly that leaves out the section of an empty group
ContextTextSkipsEmpty(results) ==
    (IF SelectType(results, "text") = <<>> THEN <<>>
     ELSE <<"### Text:\n">> \o Join(SelectType(results, "text"), "\n\n"))
    \o (IF SelectType(results, "table") = <<>> THEN <<>>
        ELSE <<"\n\n### Tables:\n">> \o Join(SelectType(results, "table"), "\n\n"))
    \o (IF SelectType(results, "image") = <<>> THEN <<>>
        ELSE <<"\n\n### Images:\n">> \o Join(SelectType(results, "image"), "\n\n"))

\* context_text (lines 67-71)
ContextText(results) ==
    <<"### Text:\n">> \o Join(SelectType(results, "text"), "\n\n")
    \o <<"\n\n### Tables:\n">> \o Join(SelectType(results, "table"), "\n\n")
    \o <<"\n\n### Images:\n">> \o Join(SelectType(results, "image"), "\n\n")

\* prompt_template.format(context=..., question=...) over PROMPT_TEMPLATE
BuildPrompt(results, query_text) ==
    <<"PROMPT_TEMPLATE head">> \o ContextText(results)
    \o <<"\n\n---\n\nAnswer the question based on the above context: ">>
    \o <<query_text>> \o <<"\n">>

\* a fallback that drops the exception text
ResponseTextDropsError(gen) ==
    IF gen.kind = "ok" THEN <<gen.val>>
    ELSE <<"Error generating response: ">>

\* the try/except around model.invoke (lines 82-87)
ResponseText(gen) ==
    IF gen.kind = "ok" THEN <<gen.val>>
    ELSE <<"Error generating response: ">> \o <<gen.val>>

\* sources listed from the last result to the first
SourcesOfReversed(results) ==
    [i \in 1..Len(results) |->
        MetaGet(results[Len(results) + 1 - i], "id", <<"unknown">>)]

\* sources (line 90)
SourcesOf(results) ==
    [i \in 1..Len(results) |-> MetaGet(results[i], "id", <<"unknown">>)]

\* query_rag once retrieval has returned `results` and generation did `gen`
QueryRag(query_text, results, gen) ==
    [query_text |-> query_text,
     response_text |-> ResponseText(gen),
     sources |-> SourcesOf(results)]

----------------------------------------------------------------------------
(* The process-wide index handle: rag_app/get_chroma_db.py *)

\* the n-th object Chroma(...) built in this process
ChromaObject(n) == <<"Chroma", n>>

\* module import (lines 14 and 17) before any call; no thread is inside get_chroma_db
ChromaDbIdle ==
    /\ CHROMA_DB_INSTANCE = None
    /\ tmpDir = "empty"
    /\ tPc = [t \in Threads |-> "idle"]
    /\ tCalls = [t \in Threads |-> 0]
    /\ constructed = 0
    /\ returned = {}

\* `if not CHROMA_DB_INSTANCE` (line 29): the thread reads the global and takes the
\* branch; nothing keeps another thread from running between this read and line 39
CheckInstance(t) ==
    /\ tPc[t] = "idle"
    /\ tCalls[t] < MaxCalls
    /\ tCalls' = [tCalls EXCEPT ![t] = @ + 1]
    /\ tPc' = [tPc EXCEPT ![t] = IF CHROMA_DB_INSTANCE = None THEN "init" ELSE "return"]
    /\ UNCHANGED <<IS_USING_IMAGE_RUNTIME, CHROMA_DB_INSTANCE, tmpDir, constructed,
                   returned, jobVars, ingestVars, contextVars>>

\* copy_chroma_to_tmp (lines 48-66): copies when the destination is empty
CopyChromaToTmp(dir) == IF dir = "empty" THEN "copied" ELSE dir

\* lines 33-42: the image-runtime preparation, then the Chroma(...) call and the
\* store into the global
InitInstance(t) ==
    /\ tPc[t] = "init"
    /\ tmpDir' = IF IS_USING_IMAGE_RUNTIME THEN CopyChromaToTmp(tmpDir) ELSE tmpDir
    /\ constructed' = constructed + 1
    /\ CHROMA_DB_INSTANCE' = ChromaObject(constructed')
    /\ tPc' = [tPc EXCEPT ![t] = "return"]
    /\ UNCHANGED <<IS_USING_IMAGE_RUNTIME, tCalls, returned, jobVars, ingestVars,
                   contextVars>>

\* `return CHROMA_DB_INSTANCE` (line 45): the global as it is now
ReturnInstance(t) ==
    /\ tPc[t] = "return"
    /\ returned' = returned \cup {CHROMA_DB_INSTANCE}
    /\ tPc' = [tPc EXCEPT ![t] = "idle"]
    /\ UNCHANGED <<IS_USING_IMAGE_RUNTIME, CHROMA_DB_INSTANCE, tmpDir, tCalls,
                   constructed, jobVars, ingestVars, contextVars>>

NextChromaDb ==
    \/ \E t \in Threads : CheckInstance(t)
    \/ \E t \in Threads : InitInstance(t)
    \/ \E t \in Threads : ReturnInstance(t)

----------------------------------------------------------------------------
(* The query side: app_api_handler.py, app_work_handler.py *)

\* the handlers without the is_complete assignment
CompletedKeepsPending(q, response) ==
    [q EXCEPT !.answer_text = response.response_text,
              !.sources = response.sources]

\* handlers that set the flag and the sources but leave answer_text as it was
CompletedWithoutAnswer(q, response) ==
    [q EXCEPT !.sources = response.sources,
              !.is_complete = TRUE]

\* the three assignments both handlers make from the query_rag response
\* (app_api_handler.py:77-79, app_work_handler.py:33-35)
Completed(q, response) ==
    [q EXCEPT !.answer_text = response.response_text,
              !.sources = response.sources,
              !.is_complete = TRUE]

LogPut(id, item) ==
    [putLog EXCEPT ![id] = IF item.is_complete
                           THEN [@ EXCEPT !.complete = @ + 1]
                           ELSE [@ EXCEPT !.pending = @ + 1]]

\* a write to the fetched id ends the "no intervening write" window of the last fetch
NoFetch == [query_id |-> UnknownId, backend |-> "idle", result |-> <<>>]

AfterWrite(id) == IF fetched.query_id = id THEN NoFetch ELSE fetched

LogRag(id, text, results, gen) ==
    ragLog \cup {[query_id |-> id, query_text |-> text, results |-> results, gen |-> gen]}

InitQuery ==
    /\ workerName \in BOOLEAN
    /\ table = <<>>
    /\ apiPc = [j \in JobIds |-> "idle"]
    /\ newQuery = [j \in JobIds |-> NewQueryModel(j, 1700000000, "Q")]
    /\ apiResult = [j \in JobIds |-> <<>>]
    /\ sent = {}
    /\ wPc = [w \in Workers |-> "idle"]
    /\ wItem = [w \in Workers |-> NewQueryModel(1, 1700000000, "Q")]
    /\ putLog = [j \in JobIds |-> [pending |-> 0, complete |-> 0]]
    /\ ragLog = {}
    /\ fetched = NoFetch

\* submit_query_endpoint, lines 68-73: a new QueryModel (fresh uuid4, the current
\* time); with a worker configured the next step is put_item
SubmitAsync(j, text, now) ==
    /\ workerName
    /\ apiPc[j] = "idle"
    /\ \A i \in JobIds : i < j => apiPc[i] # "idle"
    /\ newQuery' = [newQuery EXCEPT ![j] = NewQueryModel(j, now, text)]
    /\ apiPc' = [apiPc EXCEPT ![j] = "put"]
    /\ UNCHANGED <<workerName, table, apiResult, sent, wPc, wItem, putLog,
                   ragLog, fetched,
                   chroma, runs, corpus,
                   chromaDbVars, contextVars>>

\* an inline path that persists the new job before it runs query_rag
SubmitSyncPersistsPending(j, text, now, results, gen) ==
    /\ ~workerName
    /\ apiPc[j] = "idle"
    /\ \A i \in JobIds : i < j => apiPc[i] # "idle"
    /\ table' = TablePut(table, AsDdbItem(NewQueryModel(j, now, text)))
    /\ putLog' = LogPut(j, AsDdbItem(NewQueryModel(j, now, text)))
    /\ newQuery' = [newQuery EXCEPT
           ![j] = Completed(NewQueryModel(j, now, text), QueryRag(text, results, gen))]
    /\ apiPc' = [apiPc EXCEPT ![j] = "put"]
    /\ ragLog' = LogRag(j, text, results, gen)
    /\ UNCHANGED <<workerName, apiResult, sent, wPc, wItem, fetched,
                   chroma, runs, corpus,
                   chromaDbVars, contextVars>>

\* submit_query_endpoint, lines 68 and 74-79: no worker configured, query_rag runs
\* in the call and its response is copied into new_query
SubmitSync(j, text, now, results, gen) ==
    /\ ~workerName
    /\ apiPc[j] = "idle"
    /\ \A i \in JobIds : i < j => apiPc[i] # "idle"
    /\ newQuery' = [newQuery EXCEPT
           ![j] = Completed(NewQueryModel(j, now, text), QueryRag(text, results, gen))]
    /\ apiPc' = [apiPc EXCEPT ![j] = "put"]
    /\ ragLog' = LogRag(j, text, results, gen)
    /\ UNCHANGED <<workerName, table, apiResult, sent, wPc, wItem, putLog, fetched,
                   chroma, runs, corpus,
                   chromaDbVars, contextVars>>

\* the same with get_chroma_db or similarity_search_with_score raising
\* (query_rag.py:46-49 are outside the try): the exception leaves the endpoint
SubmitSyncRetrievalFails(j, text, now) ==
    /\ ~workerName
    /\ apiPc[j] = "idle"
    /\ \A i \in JobIds : i < j => apiPc[i] # "idle"
    /\ newQuery' = [newQuery EXCEPT ![j] = NewQueryModel(j, now, text)]
    /\ apiPc' = [apiPc EXCEPT ![j] = "raised"]
    /\ apiResult' = [apiResult EXCEPT ![j] = <<"error">>]
    /\ UNCHANGED <<workerName, table, sent, wPc, wItem, putLog, ragLog, fetched,
                   chroma, runs, corpus,
                   chromaDbVars, contextVars>>

\* an endpoint that goes on to the worker invocation without the write
ApiPutWithoutWrite(j) ==
    /\ apiPc[j] = "put"
    /\ IF workerName
       THEN /\ apiPc' = [apiPc EXCEPT ![j] = "invoke"]
            /\ UNCHANGED apiResult
       ELSE /\ apiPc' = [apiPc EXCEPT ![j] = "returned"]
            /\ apiResult' = [apiResult EXCEPT ![j] = <<newQuery[j]>>]
    /\ UNCHANGED <<workerName, table, putLog, newQuery, sent, wPc, wItem, ragLog,
                   fetched, chroma, runs, corpus,
                   chromaDbVars, contextVars>>

\* new_query.put_item() (lines 72 and 81; query_model.py:43-55) succeeding
ApiPut(j) ==
    /\ apiPc[j] = "put"
    /\ table' = TablePut(table, AsDdbItem(newQuery[j]))
    /\ putLog' = LogPut(j, AsDdbItem(newQuery[j]))
    /\ IF workerName
       THEN /\ apiPc' = [apiPc EXCEPT ![j] = "invoke"]
            /\ UNCHANGED apiResult
       ELSE /\ apiPc' = [apiPc EXCEPT ![j] = "returned"]
            /\ apiResult' = [apiResult EXCEPT ![j] = <<newQuery[j]>>]
    /\ fetched' = AfterWrite(j)
    /\ UNCHANGED <<workerName, newQuery, sent, wPc, wItem, ragLog,
                   chroma, runs, corpus,
                   chromaDbVars, contextVars>>

\* put_item with the table raising ClientError: logged and re-raised (lines 53-55)
ApiPutFails(j) ==
    /\ apiPc[j] = "put"
    /\ apiPc' = [apiPc EXCEPT ![j] = "raised"]
    /\ apiResult' = [apiResult EXCEPT ![j] = <<"error">>]
    /\ UNCHANGED <<workerName, table, newQuery, sent, wPc, wItem, putLog,
                   ragLog, fetched,
                   chroma, runs, corpus,
                   chromaDbVars, contextVars>>

\* invoke_worker (lines 86-106) and the return of line 83
InvokeWorker(j) ==
    /\ apiPc[j] = "invoke"
    /\ sent' = sent \cup {ModelDump(newQuery[j])}
    /\ apiPc' = [apiPc EXCEPT ![j] = "returned"]
    /\ apiResult' = [apiResult EXCEPT ![j] = <<newQuery[j]>>]
    /\ UNCHANGED <<workerName, table, newQuery, wPc, wItem, putLog, ragLog, fetched,
                   chroma, runs, corpus,
                   chromaDbVars, contextVars>>

\* lambda_client.invoke raising: nothing is sent, the exception leaves the endpoint
InvokeWorkerFails(j) ==
    /\ apiPc[j] = "invoke"
    /\ apiPc' = [apiPc EXCEPT ![j] = "raised"]
    /\ apiResult' = [apiResult EXCEPT ![j] = <<"error">>]
    /\ UNCHANGED <<workerName, table, newQuery, sent, wPc, wItem, putLog,
                   ragLog, fetched,
                   chroma, runs, corpus,
                   chromaDbVars, contextVars>>

\* a worker that forgets the sources assignment of line 34
WorkerRunNoSources(w, event, results, gen) ==
    /\ wPc[w] = "idle"
    /\ \A v \in Workers : v < w => wPc[v] # "idle"
    /\ event \in sent
    /\ wItem' = [wItem EXCEPT
           ![w] = [Completed(FromItem(event), QueryRag(event.query_text, results, gen))
                   EXCEPT !.sources = <<>>]]
    /\ wPc' = [wPc EXCEPT ![w] = "put"]
    /\ ragLog' = LogRag(event.query_id, event.query_text, results, gen)
    /\ UNCHANGED <<workerName, table, apiPc, newQuery, apiResult, sent, putLog, fetched,
                   chroma, runs, corpus,
                   chromaDbVars, contextVars>>

\* handler + invoke_rag lines 29-35 (app_work_handler.py): one delivery of an Event
\* invocation; the substrate may deliver a payload more than once, so it stays in sent
WorkerRun(w, event, results, gen) ==
    /\ wPc[w] = "idle"
    /\ \A v \in Workers : v < w => wPc[v] # "idle"
    /\ event \in sent
    /\ wItem' = [wItem EXCEPT
           ![w] = Completed(FromItem(event), QueryRag(event.query_text, results, gen))]
    /\ wPc' = [wPc EXCEPT ![w] = "put"]
    /\ ragLog' = LogRag(event.query_id, event.query_text, results, gen)
    /\ UNCHANGED <<workerName, table, apiPc, newQuery, apiResult, sent, putLog, fetched,
                   chroma, runs, corpus,
                   chromaDbVars, contextVars>>

\* a worker that turns a retrieval failure into a stored error answer
WorkerRetrievalFailsStoresError(w, event) ==
    /\ wPc[w] = "idle"
    /\ \A v \in Workers : v < w => wPc[v] # "idle"
    /\ event \in sent
    /\ wPc' = [wPc EXCEPT ![w] = "raised"]
    /\ table' = TablePut(table,
                         AsDdbItem([FromItem(event) EXCEPT
                                       !.answer_text = <<"Error retrieving context">>,
                                       !.is_complete = TRUE]))
    /\ UNCHANGED <<workerName, apiPc, newQuery, apiResult, sent, wItem, putLog,
                   ragLog, fetched,
                   chroma, runs, corpus,
                   chromaDbVars, contextVars>>

\* the same with retrieval raising inside query_rag: the handler ends with the exception
WorkerRetrievalFails(w, event) ==
    /\ wPc[w] = "idle"
    /\ \A v \in Workers : v < w => wPc[v] # "idle"
    /\ event \in sent
    /\ wPc' = [wPc EXCEPT ![w] = "raised"]
    /\ UNCHANGED <<workerName, table, apiPc, newQuery, apiResult, sent, wItem, putLog,
                   ragLog, fetched,
                   chroma, runs, corpus,
                   chromaDbVars, contextVars>>

\* query_item.put_item() (app_work_handler.py:37) succeeding
WorkerPut(w) ==
    /\ wPc[w] = "put"
    /\ table' = TablePut(table, AsDdbItem(wItem[w]))
    /\ putLog' = LogPut(wItem[w].query_id, AsDdbItem(wItem[w]))
    /\ wPc' = [wPc EXCEPT ![w] = "done"]
    /\ fetched' = AfterWrite(wItem[w].query_id)
    /\ UNCHANGED <<workerName, apiPc, newQuery, apiResult, sent, wItem, ragLog,
                   chroma, runs, corpus,
                   chromaDbVars, contextVars>>

\* a worker that answers a failed write by storing the job as pending again
WorkerPutFailsRestoresPending(w) ==
    /\ wPc[w] = "put"
    /\ wPc' = [wPc EXCEPT ![w] = "raised"]
    /\ wItem' = [wItem EXCEPT ![w] = NewQueryModel(1, 1700000000, "Q")]
    /\ table' = TablePut(table, AsDdbItem(NewQueryModel(wItem[w].query_id,
                                                        wItem[w].create_time,
                                                        wItem[w].query_text)))
    /\ UNCHANGED <<workerName, apiPc, newQuery, apiResult, sent,
                   putLog, ragLog, fetched,
                   chroma, runs, corpus,
                   chromaDbVars, contextVars>>

\* put_item raising ClientError in the worker
WorkerPutFails(w) ==
    /\ wPc[w] = "put"
    /\ wPc' = [wPc EXCEPT ![w] = "raised"]
    /\ wItem' = [wItem EXCEPT ![w] = NewQueryModel(1, 1700000000, "Q")]
    /\ UNCHANGED <<workerName, table, apiPc, newQuery, apiResult, sent,
                   putLog, ragLog, fetched,
                   chroma, runs, corpus,
                   chromaDbVars, contextVars>>

\* QueryModel.get_item (query_model.py:69-93) with `backend` what table.get_item
\* did: None (the empty result) or the model built from the item
GetItem(t, id, backend) ==
    IF backend = "ClientError" THEN <<>>
    ELSE IF id \in DOMAIN t THEN <<FromItem(t[id])>>
    ELSE <<>>

\* get_query_endpoint (app_api_handler.py:38-50)
GetQueryEndpoint(id, backend) ==
    /\ fetched' = [query_id |-> id, backend |-> backend,
                   result |-> GetItem(table, id, backend)]
    /\ UNCHANGED <<workerName, table, apiPc, newQuery, apiResult, sent, wPc, wItem,
                   putLog, ragLog, chroma, runs, corpus,
                   chromaDbVars, contextVars>>

Next ==
    \/ \E j \in JobIds, text \in QueryTexts, now \in CreateTimes :
          SubmitAsync(j, text, now)
    \/ \E j \in JobIds, text \in QueryTexts, now \in CreateTimes,
          results \in RetrievalResults, gen \in GenOutcomes :
          SubmitSync(j, text, now, results, gen)
    \/ \E j \in JobIds, text \in QueryTexts, now \in CreateTimes :
          SubmitSyncRetrievalFails(j, text, now)
    \/ \E j \in JobIds : ApiPut(j)
    \/ \E j \in JobIds : ApiPutFails(j)
    \/ \E j \in JobIds : InvokeWorker(j)
    \/ \E j \in JobIds : InvokeWorkerFails(j)
    \/ \E w \in Workers, event \in sent, results \in RetrievalResults,
          gen \in GenOutcomes : WorkerRun(w, event, results, gen)
    \/ \E w \in Workers, event \in sent : WorkerRetrievalFails(w, event)
    \/ \E w \in Workers : WorkerPut(w)
    \/ \E w \in Workers : WorkerPutFails(w)

Init ==
    /\ InitQuery
    /\ chroma = <<>>
    /\ runs = <<>>
    /\ corpus = "original"
    /\ IS_USING_IMAGE_RUNTIME = FALSE
    /\ ChromaDbIdle
    /\ retrieved = <<>>
    /\ context = <<>>

Spec == Init /\ [][Next]_vars

\* a server process whose request threads call get_chroma_db
InitChromaDb ==
    /\ IS_USING_IMAGE_RUNTIME \in BOOLEAN
    /\ ChromaDbIdle
    /\ workerName = FALSE
    /\ table = <<>>
    /\ apiPc = [j \in JobIds |-> "idle"]
    /\ newQuery = [j \in JobIds |-> NewQueryModel(j, 1700000000, "Q")]
    /\ apiResult = [j \in JobIds |-> <<>>]
    /\ sent = {}
    /\ wPc = [w \in Workers |-> "idle"]
    /\ wItem = [w \in Workers |-> NewQueryModel(1, 1700000000, "Q")]
    /\ putLog = [j \in JobIds |-> [pending |-> 0, complete |-> 0]]
    /\ ragLog = {}
    /\ fetched = NoFetch
    /\ chroma = <<>>
    /\ runs = <<>>
    /\ corpus = "original"
    /\ retrieved = <<>>
    /\ context = <<>>

SpecChromaDb == InitChromaDb /\ [][NextChromaDb]_vars

----------------------------------------------------------------------------
(* Context assembly of query_rag, on its own *)

IndexEntries == {DocText, DocTable, DocImage, DocTextLater, DocTableLater, DocImageLater}

\* similarity_search_with_score(query_text, k=5) (line 49): at most k entries of the
\* index, each at most once, in rank order
RankedResults ==
    {r \in UNION {[1..n -> IndexEntries] : n \in 0..TopK} :
        \A i, j \in DOMAIN r : i # j => r[i] # r[j]}

InitContext ==
    /\ retrieved \in RankedResults
    /\ context = <<>>
    /\ workerName = FALSE
    /\ table = <<>>
    /\ apiPc = [j \in JobIds |-> "idle"]
    /\ newQuery = [j \in JobIds |-> NewQueryModel(j, 1700000000, "Q")]
    /\ apiResult = [j \in JobIds |-> <<>>]
    /\ sent = {}
    /\ wPc = [w \in Workers |-> "idle"]
    /\ wItem = [w \in Workers |-> NewQueryModel(1, 1700000000, "Q")]
    /\ putLog = [j \in JobIds |-> [pending |-> 0, complete |-> 0]]
    /\ ragLog = {}
    /\ fetched = NoFetch
    /\ chroma = <<>>
    /\ runs = <<>>
    /\ corpus = "original"
    /\ IS_USING_IMAGE_RUNTIME = FALSE
    /\ ChromaDbIdle

\* lines 51-71 of query_rag over the results of the search
AssembleContext ==
    /\ context = <<>>
    /\ context' = ContextText(retrieved)
    /\ UNCHANGED <<retrieved, jobVars, ingestVars, chromaDbVars>>

NextContext == AssembleContext

SpecContext == InitContext /\ [][NextContext]_vars

----------------------------------------------------------------------------
(* Ingestion: populate_database.py *)

\* ingestion runs (one operating-system process each) the model follows
MaxRuns == 3

\* max_chunk_size and chunk_overlap of split_documents
ChunkSize == 5000
ChunkOverlap == 200

\* PYTHONHASHSEED of a process: unset, so drawn at interpreter start
HashSeeds == {0, 1}

\* A payload is a slice [from, to) of a named text, so len(page_content) is to - from
Payload(tag, len) == [tag |-> tag, from |-> 0, to |-> len]
PayloadLen(p) == p.to - p.from

\* What fitz reads from the files of DATA_SOURCE_PATH: per page the text, the
\* embedded images (already base64 text) and the layout blocks
PageOne ==
    [text |-> Payload("Robots are built at AIR Lab.", 28), blank |-> FALSE,
     images |-> <<Payload("b64:logo", 5001)>>,
     blocks |-> <<[lines |-> 2, spans |-> TRUE, content |-> Payload("c1\tc2\nc3\tc4", 11)],
                  [lines |-> 1, spans |-> TRUE, content |-> Payload("heading", 7)]>>]
PageBlank ==
    [text |-> Payload("  \n", 3), blank |-> TRUE, images |-> <<>>, blocks |-> <<>>]
PageLong ==
    [text |-> Payload("manual", 9801), blank |-> FALSE, images |-> <<>>, blocks |-> <<>>]
PageEdited ==
    [text |-> Payload("Robots are built at AIR Lab 2.", 30), blank |-> FALSE,
     images |-> <<Payload("b64:logo", 5001)>>,
     blocks |-> <<[lines |-> 2, spans |-> TRUE, content |-> Payload("yes\nno", 6)],
                  [lines |-> 2, spans |-> TRUE, content |-> Payload("yes\nno", 6)]>>]

FileA == [name |-> "a.pdf", is_pdf |-> TRUE, readable |-> TRUE,
          pages |-> <<PageOne, PageBlank, PageLong>>]
FileAEdited == [name |-> "a.pdf", is_pdf |-> TRUE, readable |-> TRUE,
                pages |-> <<PageEdited, PageBlank, PageLong>>]
FileNotes == [name |-> "notes.txt", is_pdf |-> FALSE, readable |-> TRUE, pages |-> <<>>]
FileCorrupt == [name |-> "broken.pdf", is_pdf |-> TRUE, readable |-> FALSE, pages |-> <<>>]

\* the directory listings the model follows, by name
CorpusNames == {"original", "edited", "with_corrupt"}
CorpusFiles(name) ==
    CASE name = "original" -> <<FileA, FileNotes>>
      [] name = "edited" -> <<FileAEdited, FileNotes>>
      [] name = "with_corrupt" -> <<FileA, FileCorrupt>>

Document(content, meta) == [page_content |-> content, metadata |-> meta]

RECURSIVE ImageDocs(_, _, _, _)
\* lines 39-52: one document per embedded image, image_index from enumerate
ImageDocs(path, page_num, images, index) ==
    IF images = <<>> THEN <<>>
    ELSE <<Document(Head(images),
                    [source |-> path, page |-> page_num, type |-> "image",
                     image_index |-> index])>>
         \o ImageDocs(path, page_num, Tail(images), index + 1)

RECURSIVE TableDocs(_, _, _, _)
\* lines 55-66: one document per block of several lines whose lines all have spans,
\* table_index the block's index
TableDocs(path, page_num, blocks, index) ==
    IF blocks = <<>> THEN <<>>
    ELSE LET block == Head(blocks)
             rest == TableDocs(path, page_num, Tail(blocks), index + 1)
         IN IF block.lines > 1 /\ block.spans
            THEN <<Document(block.content,
                            [source |-> path, page |-> page_num, type |-> "table",
                             table_index |-> index])>> \o rest
            ELSE rest

RECURSIVE PageDocs(_, _, _)
\* extract_pdf_content, the loop of lines 30-66 from page index i on
PageDocs(path, pages, i) ==
    IF i > Len(pages) THEN <<>>
    ELSE LET page == pages[i]
         IN (IF ~page.blank
             THEN <<Document(page.text, [source |-> path, page |-> i])>>
             ELSE <<>>)
            \o ImageDocs(path, i, page.images, 0)
            \o TableDocs(path, i, page.blocks, 0)
            \o PageDocs(path, pages, i + 1)

\* extract_pdf_content of a file fitz can open
ExtractPdfContent(file) == PageDocs(file.name, file.pages, 1)

RECURSIVE LoadDocuments(_)
\* load_documents: the .pdf files of the listing in order; fitz.open raising on a
\* file leaves the function (there is no try), so nothing is returned
LoadDocuments(files) ==
    IF files = <<>> THEN [ok |-> TRUE, docs |-> <<>>]
    ELSE LET file == Head(files)
             rest == LoadDocuments(Tail(files))
         IN IF ~file.is_pdf THEN rest
            ELSE IF ~file.readable THEN [ok |-> FALSE, docs |-> <<>>]
            ELSE [ok |-> rest.ok,
                  docs |-> IF rest.ok THEN ExtractPdfContent(file) \o rest.docs ELSE <<>>]

RECURSIVE Windows(_, _, _)
\* RecursiveCharacterTextSplitter on a payload with no separator left to split on:
\* windows of chunk_size characters, each starting chunk_overlap before the end of
\* the one before
Windows(tag, from, to) ==
    IF to - from <= ChunkSize THEN <<[tag |-> tag, from |-> from, to |-> to]>>
    ELSE <<[tag |-> tag, from |-> from, to |-> from + ChunkSize]>>
         \o Windows(tag, from + ChunkSize - ChunkOverlap, to)

RECURSIVE SplitDocuments(_)
\* split_documents: every document goes through the splitter, whatever its type;
\* each chunk gets a copy of the document's metadata
SplitDocuments(docs) ==
    IF docs = <<>> THEN <<>>
    ELSE LET doc == Head(docs)
             parts == Windows(doc.page_content.tag, doc.page_content.from,
                              doc.page_content.to)
         IN [i \in 1..Len(parts) |-> Document(parts[i], doc.metadata)]
            \o SplitDocuments(Tail(docs))

\* hash(str) of CPython: keyed by the process's hash seed
PyHash(content, seed) == <<seed, content>>

\* dict.get(key, default) on a document's metadata
DocMetaGet(doc, key, default) ==
    IF key \in DOMAIN doc.metadata THEN doc.metadata[key] ELSE default

\* line 128: f"{source}:{page}:{doc_type}:{hash(doc.page_content)}"
ChunkId(doc, seed) ==
    <<doc.metadata.source, doc.metadata.page, DocMetaGet(doc, "type", "text"),
      PyHash(doc.page_content, seed)>>

\* lines 124-128: doc.metadata["id"] = ...
WithId(doc, seed) ==
    Document(doc.page_content,
             [k \in DOMAIN doc.metadata \cup {"id"} |->
                 IF k = "id" THEN ChunkId(doc, seed) ELSE doc.metadata[k]])

\* line 133: the documents whose id the collection does not hold yet
NewDocuments(db, docs, seed) ==
    SelectSeq([i \in 1..Len(docs) |-> WithId(docs[i], seed)],
              LAMBDA d : d.metadata.id \notin DOMAIN db)

\* a store that keeps only the entries of the last insert
AddDocumentsReplacing(db, new) ==
    LET ids == {new[i].metadata.id : i \in 1..Len(new)}
    IN [id \in ids |->
           LET i == CHOOSE k \in 1..Len(new) :
                        /\ new[k].metadata.id = id
                        /\ \A l \in 1..Len(new) : new[l].metadata.id = id => l <= k
           IN new[i]]

\* db.add_documents(new_documents, ids=...): the entries stored under their ids
AddDocuments(db, new) ==
    LET ids == {new[i].metadata.id : i \in 1..Len(new)}
    IN [id \in DOMAIN db \cup ids |->
           IF id \in ids
           THEN LET i == CHOOSE k \in 1..Len(new) :
                             /\ new[k].metadata.id = id
                             /\ \A l \in 1..Len(new) : new[l].metadata.id = id => l <= k
                IN new[i]
           ELSE db[id]]

\* add_to_chroma
AddToChroma(db, docs, seed) == AddDocuments(db, NewDocuments(db, docs, seed))

\* the identity of a content unit: what an id is meant to be a function of
UnitKey(doc) ==
    <<doc.metadata.source, doc.metadata.page, DocMetaGet(doc, "type", "text"),
      doc.page_content>>

InitIngest ==
    /\ chroma = <<>>
    /\ runs = <<>>
    /\ corpus = "original"
    /\ workerName = FALSE
    /\ table = <<>>
    /\ apiPc = [j \in JobIds |-> "idle"]
    /\ newQuery = [j \in JobIds |-> NewQueryModel(j, 1700000000, "Q")]
    /\ apiResult = [j \in JobIds |-> <<>>]
    /\ sent = {}
    /\ wPc = [w \in Workers |-> "idle"]
    /\ wItem = [w \in Workers |-> NewQueryModel(1, 1700000000, "Q")]
    /\ putLog = [j \in JobIds |-> [pending |-> 0, complete |-> 0]]
    /\ ragLog = {}
    /\ fetched = NoFetch
    /\ IS_USING_IMAGE_RUNTIME = FALSE
    /\ ChromaDbIdle
    /\ retrieved = <<>>
    /\ context = <<>>

RunRecord(reset, seed, outcome, before, after) ==
    [reset |-> reset, seed |-> seed, corpus |-> corpus, outcome |-> outcome,
     inserted |-> Cardinality(DOMAIN after \ DOMAIN before),
     ids |-> DOMAIN after]

\* main (lines 151-166) of one process: clear_database when --reset is given, then
\* load_documents, split_documents, add_to_chroma; `embed` is what the embedding
\* collaborator does inside add_documents. A run ends "load_raised" when
\* load_documents raised, "raised" when add_documents did, "ok" otherwise
Main(reset, seed, embed) ==
    /\ Len(runs) < MaxRuns
    /\ LET cleared == IF reset THEN <<>> ELSE chroma
           loaded == LoadDocuments(CorpusFiles(corpus))
           new == NewDocuments(cleared, SplitDocuments(loaded.docs), seed)
       IN IF ~loaded.ok
          THEN /\ chroma' = cleared
               /\ runs' = Append(runs, RunRecord(reset, seed, "load_raised", cleared,
                                                 cleared))
          ELSE IF new # <<>> /\ embed = "raise"
          THEN /\ chroma' = cleared
               /\ runs' = Append(runs, RunRecord(reset, seed, "raised", cleared, cleared))
          ELSE /\ chroma' = AddToChroma(cleared, SplitDocuments(loaded.docs), seed)
               /\ runs' = Append(runs, RunRecord(reset, seed, "ok", cleared, chroma'))
    /\ UNCHANGED <<corpus, workerName, table, apiPc, newQuery, apiResult, sent, wPc,
                   wItem, putLog, ragLog, fetched,
                   chromaDbVars, contextVars>>

\* the operator changes the files of the source directory between runs
ChangeCorpus(name) ==
    /\ name # corpus
    /\ Len(runs) < MaxRuns
    /\ corpus' = name
    /\ UNCHANGED <<chroma, runs, workerName, table, apiPc, newQuery, apiResult, sent,
                   wPc, wItem, putLog, ragLog, fetched,
                   chromaDbVars, contextVars>>

NextIngest ==
    \/ \E reset \in BOOLEAN, seed \in HashSeeds, embed \in {"ok", "raise"} :
          Main(reset, seed, embed)
    \/ \E name \in CorpusNames : ChangeCorpus(name)

SpecIngest == InitIngest /\ [][NextIngest]_vars

----------------------------------------------------------------------------
(* Properties of ingestion *)

\* C3: a second ingestion run without --reset over an unchanged document set inserts
\* nothing: the index after it is the index after the first
C3_IdempotentIngestion ==
    \A i \in 1..Len(runs) :
        (/\ i > 1
         /\ runs[i].outcome = "ok"
         /\ runs[i - 1].outcome = "ok"
         /\ ~runs[i].reset
         /\ runs[i].corpus = runs[i - 1].corpus)
        => /\ runs[i].inserted = 0
           /\ runs[i].ids = runs[i - 1].ids

\* C4: the id add_to_chroma assigns depends on (source, page, type, payload) alone:
\* entries written by any runs for equal source, page, type and payload have one id
C4_IdIsFunctionOfContent ==
    \A a, b \in DOMAIN chroma :
        UnitKey(chroma[a]) = UnitKey(chroma[b]) => a = b

----------------------------------------------------------------------------
(* The job store seen through the HTTP endpoints: submissions and fetches *)

StoreTexts == {"Q", "R"}

NextStore ==
    \/ \E j \in JobIds, text \in StoreTexts, now \in CreateTimes :
          SubmitAsync(j, text, now)
    \/ \E j \in JobIds, text \in StoreTexts, now \in CreateTimes,
          results \in RetrievalResults, gen \in GenOutcomes :
          SubmitSync(j, text, now, results, gen)
    \/ \E j \in JobIds, text \in StoreTexts, now \in CreateTimes :
          SubmitSyncRetrievalFails(j, text, now)
    \/ \E j \in JobIds : ApiPut(j)
    \/ \E j \in JobIds : ApiPutFails(j)
    \/ \E j \in JobIds : InvokeWorker(j)
    \/ \E j \in JobIds : InvokeWorkerFails(j)
    \/ \E id \in JobIds \cup {UnknownId}, backend \in {"ok", "ClientError"} :
          GetQueryEndpoint(id, backend)

SpecStore == Init /\ [][NextStore]_vars

----------------------------------------------------------------------------
(* Properties of the query side *)

\* the text holds the token somewhere
Contains(text, token) == \E i \in 1..Len(text) : text[i] = token

\* query processing for job j has finished: inline, the endpoint returned; with a
\* worker, an invocation for j came back from its put_item
ProcessingFinished(j) ==
    IF workerName
    THEN \E w \in Workers : wPc[w] = "done" /\ wItem[w].query_id = j
    ELSE apiPc[j] = "returned"

\* every query_rag call so far saw the same index and the same generation behaviour:
\* retrieval is a function of the query text, generation a function of the prompt
EnvDeterministic ==
    \A a, b \in ragLog :
        a.query_text = b.query_text =>
            /\ a.results = b.results
            /\ BuildPrompt(a.results, a.query_text) = BuildPrompt(b.results, b.query_text)
                   => a.gen = b.gen

\* the item the inline path persists for these inputs
SyncRecord(id, now, text, results, gen) ==
    AsDdbItem(Completed(NewQueryModel(id, now, text), QueryRag(text, results, gen)))

\* the item one worker invocation with payload m persists for these inputs
SingleInvocationRecord(m, results, gen) ==
    AsDdbItem(Completed(FromItem(m), QueryRag(m.query_text, results, gen)))

\* C1: once processing of a job has finished, in either dispatch mode, get_item of
\* its id returns a record with is_complete true and an answer_text that is not None
C1_CompletionInvariant ==
    \A j \in JobIds :
        ProcessingFinished(j) =>
            LET r == GetItem(table, j, "ok")
            IN /\ r # <<>>
               /\ r[1].is_complete = TRUE
               /\ r[1].answer_text # None

C1_Witness ==
    /\ workerName
    /\ \E j \in JobIds :
          /\ ProcessingFinished(j)
          /\ GetItem(table, j, "ok") # <<>>
          /\ GetItem(table, j, "ok")[1].is_complete

\* C2: when generation raised in the processing of a job, processing still ends with
\* the job stored complete, and the stored answer is the fallback text holding the
\* description of the error
C2_GenerationFailureContained ==
    \A j \in JobIds :
        (/\ ProcessingFinished(j)
         /\ \A e \in ragLog : e.query_id = j => e.gen.kind = "raise")
        => /\ j \in DOMAIN table
           /\ table[j].is_complete = TRUE
           /\ "answer_text" \in DOMAIN table[j]
           /\ \E e \in ragLog :
                 /\ e.query_id = j
                 /\ Contains(table[j].answer_text, e.gen.val)
                 /\ table[j].answer_text[1] = "Error generating response: "

C2_Witness ==
    \E j \in JobIds :
        /\ ProcessingFinished(j)
        /\ \E e \in ragLog : e.query_id = j
        /\ \A e \in ragLog : e.query_id = j => e.gen.kind = "raise"
        /\ Contains(table[j].answer_text, "throttled")

\* C5: with a worker configured, the pending record (is_complete false, no
\* answer_text) is in the table before the invocation is sent, the payload is the
\* full job record, nothing is sent when the write failed, and the caller gets the
\* pending job
C5_AsyncDispatchOrder ==
    workerName =>
        /\ \A m \in sent :
              /\ m.query_id \in DOMAIN table
              /\ putLog[m.query_id].pending >= 1
              /\ DOMAIN m = QueryFields
              /\ m = ModelDump(newQuery[m.query_id])
              /\ m.is_complete = FALSE
              /\ m.answer_text = None
        /\ \A j \in JobIds :
              /\ apiPc[j] = "invoke" =>
                    /\ j \in DOMAIN table
                    /\ table[j].is_complete = FALSE
                    /\ "answer_text" \notin DOMAIN table[j]
                    /\ FromItem(table[j]) = newQuery[j]
              /\ (apiPc[j] = "raised" /\ j \notin DOMAIN table) =>
                    ~(\E m \in sent : m.query_id = j)
              /\ apiPc[j] = "returned" =>
                    /\ apiResult[j] = <<newQuery[j]>>
                    /\ apiResult[j][1].is_complete = FALSE
                    /\ apiResult[j][1].answer_text = None

C5_Witness ==
    /\ workerName
    /\ \E j \in JobIds :
          /\ apiPc[j] = "returned"
          /\ \E m \in sent : m.query_id = j
          /\ putLog[j].complete = 0
          /\ table[j].is_complete = FALSE
          /\ \A w \in Workers : wPc[w] = "idle"

\* C6: with no worker configured, query_rag has run before the first write, the
\* endpoint writes the job once, as a complete record, no pending record is ever
\* stored, and the caller gets the completed job
C6_SyncDispatch ==
    ~workerName =>
        \A j \in JobIds :
            /\ apiPc[j] = "put" =>
                  /\ newQuery[j].is_complete = TRUE
                  /\ \E e \in ragLog : e.query_id = j
                  /\ j \notin DOMAIN table
                  /\ putLog[j].complete = 0
            /\ putLog[j].pending = 0
            /\ putLog[j].complete <= 1
            /\ j \in DOMAIN table =>
                  /\ table[j].is_complete = TRUE
                  /\ "answer_text" \in DOMAIN table[j]
            /\ apiPc[j] = "returned" =>
                  /\ putLog[j].complete = 1
                  /\ apiResult[j] = <<newQuery[j]>>
                  /\ apiResult[j][1].is_complete = TRUE
                  /\ apiResult[j][1].answer_text # None
                  /\ table[j] = AsDdbItem(apiResult[j][1])

C6_Witness ==
    /\ ~workerName
    /\ \E j \in JobIds :
          /\ apiPc[j] = "returned"
          /\ putLog[j] = [pending |-> 0, complete |-> 1]
          /\ table[j].is_complete

\* C7: get_item after put_item, with no write to the id in between, returns the
\* model that was written, field for field; a new job comes back with its
\* query_text, is_complete false and no answer_text
C7_RoundTrip ==
    (fetched.backend = "ok" /\ fetched.query_id \in DOMAIN table) =>
        LET id == fetched.query_id
        IN /\ fetched.result = <<newQuery[id]>>
           /\ workerName =>
                 /\ fetched.result[1].query_text = newQuery[id].query_text
                 /\ fetched.result[1].is_complete = FALSE
                 /\ fetched.result[1].answer_text = None
                 /\ "answer_text" \notin DOMAIN table[id]

C7_Witness ==
    /\ workerName
    /\ fetched.backend = "ok"
    /\ fetched.query_id \in DOMAIN table
    /\ fetched.result # <<>>
    /\ fetched.result[1].query_text = "Q"
    /\ fetched.result[1].is_complete = FALSE

\* C8: the worker path and the inline path persist the same answer_text, sources
\* and is_complete for the same query text, index contents and generation
\* behaviour: whichever path wrote it, a complete record carries what the inline
\* path computes from that query_rag outcome
C8_PathsEquivalent ==
    EnvDeterministic =>
        \A j \in DOMAIN table :
            table[j].is_complete =>
                /\ "answer_text" \in DOMAIN table[j]
                /\ \A e \in ragLog :
                      e.query_text = table[j].query_text =>
                          LET ref == SyncRecord(j, table[j].create_time, e.query_text,
                                                e.results, e.gen)
                          IN /\ table[j].answer_text = ref.answer_text
                             /\ table[j].sources = ref.sources
                             /\ table[j].is_complete = ref.is_complete

C8_Witness ==
    /\ workerName
    /\ EnvDeterministic
    /\ \E j \in DOMAIN table, e \in ragLog :
          /\ e.query_id = j
          /\ table[j] = SyncRecord(j, table[j].create_time, e.query_text,
                                   e.results, e.gen)
          /\ Len(table[j].sources) > 1

\* C9: duplicate worker invocations of one job, with unchanged index contents and
\* deterministic generation, leave the record of that id complete and equal to the
\* record a single invocation writes
C9_DuplicatesConverge ==
    (workerName /\ EnvDeterministic) =>
        \A j \in JobIds :
            ProcessingFinished(j) =>
                /\ j \in DOMAIN table
                /\ table[j].is_complete = TRUE
                /\ \A m \in sent, e \in ragLog :
                      (m.query_id = j /\ e.query_id = j) =>
                          table[j] = SingleInvocationRecord(m, e.results, e.gen)

C9_Witness ==
    /\ workerName
    /\ EnvDeterministic
    /\ \E j \in JobIds :
          /\ \E v, w \in Workers :
                /\ v # w
                /\ wPc[v] = "done" /\ wItem[v].query_id = j
                /\ wPc[w] = "done" /\ wItem[w].query_id = j
          /\ putLog[j].complete = 2
          /\ \E m \in sent, e \in ragLog :
                /\ m.query_id = j
                /\ e.query_id = j
                /\ table[j] = SingleInvocationRecord(m, e.results, e.gen)

\* C10: get_item returns the not-found result only when the table holds no record
\* of the id, and a backend error of the fetch reaches the caller as something other
\* than the not-found result
C10_NotFoundOnlyWhenAbsent ==
    fetched.backend # "idle" =>
        /\ fetched.result = <<>> => fetched.query_id \notin DOMAIN table
        /\ fetched.backend = "ClientError" => fetched.result # <<>>

----------------------------------------------------------------------------
(* Properties of the index handle *)

\* C11: in one process, under any interleaving of get_chroma_db calls of its
\* threads, Chroma(...) is constructed at most once and all calls return one and
\* the same instance
C11_ConstructedAtMostOnce ==
    /\ constructed <= 1
    /\ Cardinality(returned) <= 1

----------------------------------------------------------------------------
(* Properties of context assembly *)

\* where a token, or a payload, stands in the assembled context
HeaderAt(tok) == {p \in DOMAIN context : context[p] = tok}
PayloadAt(doc) ==
    {p \in 1..(Len(context) - Len(doc.page_content) + 1) :
        SubSeq(context, p, p + Len(doc.page_content) - 1) = doc.page_content}
KindOf(doc) == MetaGet(doc, "type", "text")
OfKind(kind) == {i \in DOMAIN retrieved : KindOf(retrieved[i]) = kind}

\* C12: the context block has the three sections in the order text, tables, images,
\* each present even when its group is empty; every retrieved payload stands exactly
\* once, in the section of its kind, and payloads of one section keep rank order
C12_ContextGrouped ==
    context # <<>> =>
        /\ HeaderAt("### Text:\n") = {1}
        /\ Cardinality(HeaderAt("\n\n### Tables:\n")) = 1
        /\ Cardinality(HeaderAt("\n\n### Images:\n")) = 1
        /\ LET tb == CHOOSE p \in HeaderAt("\n\n### Tables:\n") : TRUE
               im == CHOOSE p \in HeaderAt("\n\n### Images:\n") : TRUE
               SectionAt(p) == IF p < tb THEN "text" ELSE IF p < im THEN "table"
                               ELSE "image"
           IN /\ tb < im
              /\ \A i \in DOMAIN retrieved :
                    /\ Cardinality(PayloadAt(retrieved[i])) = 1
                    /\ \A p \in PayloadAt(retrieved[i]) :
                          SectionAt(p) = KindOf(retrieved[i])
              /\ \A i, j \in DOMAIN retrieved :
                    (i < j /\ KindOf(retrieved[i]) = KindOf(retrieved[j]))
                    => \A p \in PayloadAt(retrieved[i]), q \in PayloadAt(retrieved[j]) :
                          p < q
              /\ OfKind("text") = {} => tb = 2
              /\ OfKind("table") = {} => im = tb + 1
              /\ OfKind("image") = {} => im = Len(context)

\* a context was assembled from results with two text units, a table and no image
C12_Witness ==
    /\ context # <<>>
    /\ Cardinality(OfKind("text")) = 2
    /\ Cardinality(OfKind("table")) >= 1
    /\ OfKind("image") = {}

----------------------------------------------------------------------------
(* Properties of ingestion, continued *)

\* the units load_documents yields for the corpus of run i
UnitsOfRun(i) ==
    LET docs == LoadDocuments(CorpusFiles(runs[i].corpus)).docs
    IN {docs[k] : k \in DOMAIN docs}

\* the entries of the index that carry the source, page and kind of unit d
EntriesOfUnit(d) ==
    {id \in DOMAIN chroma :
        /\ chroma[id].metadata.source = d.metadata.source
        /\ chroma[id].metadata.page = d.metadata.page
        /\ DocMetaGet(chroma[id], "type", "text") = DocMetaGet(d, "type", "text")}

\* C13: after a run that filled an emptied index, every table or image unit of the
\* corpus stands in the index exactly once with its payload unchanged, whatever its
\* length; a text unit no longer than the maximum chunk size stands there whole; and
\* every entry carries the source, page and kind of a unit of the corpus
C13_TablesAndImagesUnsplit ==
    LET n == Len(runs)
    IN (n > 0 /\ runs[n].outcome = "ok" /\ runs[n].reset)
       => /\ \A d \in UnitsOfRun(n) :
                (\/ DocMetaGet(d, "type", "text") \in {"table", "image"}
                 \/ PayloadLen(d.page_content) <= ChunkSize)
                => Cardinality({id \in EntriesOfUnit(d) :
                                   chroma[id].page_content = d.page_content}) = 1
          /\ \A id \in DOMAIN chroma :
                \E d \in UnitsOfRun(n) : id \in EntriesOfUnit(d)

\* the .pdf files of a listing that fitz can, and cannot, open
ReadablePdfs(files) ==
    {files[k] : k \in {x \in DOMAIN files : files[x].is_pdf /\ files[x].readable}}
UnreadablePdfs(files) ==
    {files[k] : k \in {x \in DOMAIN files : files[x].is_pdf /\ ~files[x].readable}}

\* C14: no run ends in load_documents because one document cannot be extracted; a run
\* that completes has indexed every chunk of every readable document and nothing of
\* the failed one
C14_ExtractionErrorIsolated ==
    \A i \in DOMAIN runs :
        LET files == CorpusFiles(runs[i].corpus)
        IN /\ runs[i].outcome # "load_raised"
           /\ runs[i].outcome = "ok" =>
                 /\ \A f \in ReadablePdfs(files) :
                       LET chunks == SplitDocuments(ExtractPdfContent(f))
                       IN \A k \in DOMAIN chunks :
                             ChunkId(chunks[k], runs[i].seed) \in runs[i].ids
                 /\ \A f \in UnreadablePdfs(files) :
                       \A id \in runs[i].ids : id[1] # f.name

\* the chunks add_to_chroma is handed for a corpus, with the ids a process of the
\* given hash seed assigns them
BatchOf ==
    [name \in CorpusNames, seed \in HashSeeds |->
        LET chunks == SplitDocuments(LoadDocuments(CorpusFiles(name)).docs)
        IN [k \in DOMAIN chunks |-> WithId(chunks[k], seed)]]

\* C15: a run that completes adds exactly the chunks of its batch whose id the index
\* did not hold, each under its id with the chunk's payload and metadata; a run
\* without --reset leaves every entry the index held as it was; and outside a run
\* the index does not change
C15_ExistingEntriesKept ==
    [][IF Len(runs') = Len(runs)
       THEN chroma' = chroma
       ELSE LET r == runs'[Len(runs')]
                before == IF r.reset THEN <<>> ELSE chroma
                batch == BatchOf[r.corpus, r.seed]
                batchIds == {batch[k].metadata.id : k \in DOMAIN batch}
            IN /\ \A id \in DOMAIN before :
                     id \in DOMAIN chroma' /\ chroma'[id] = before[id]
               /\ r.outcome = "ok" =>
                     /\ DOMAIN chroma' \ DOMAIN before = batchIds \ DOMAIN before
                     /\ \A id \in DOMAIN chroma' \ DOMAIN before :
                           \E k \in DOMAIN batch : chroma'[id] = batch[k]
               /\ r.outcome # "ok" => DOMAIN chroma' = DOMAIN before]_vars

\* a run without --reset has added entries to an index that already held some
C15_Witness ==
    /\ Len(runs) >= 2
    /\ runs[Len(runs)].outcome = "ok"
    /\ ~runs[Len(runs)].reset
    /\ runs[Len(runs)].inserted > 0
    /\ runs[Len(runs) - 1].ids # {}

----------------------------------------------------------------------------
(* Properties of the job lifecycle *)

\* C16: in every step, a stored job stays stored and a job stored as complete stays
\* complete: the lifecycle state of a record only ever goes from pending to complete
C16_LifecycleMonotonic ==
    [][\A j \in DOMAIN table :
          /\ j \in DOMAIN table'
          /\ table[j].is_complete => table'[j].is_complete]_vars

\* a job stored pending was completed by one worker invocation and written again by a
\* duplicate one
C16_Witness ==
    \E j \in JobIds :
        /\ putLog[j].pending >= 1
        /\ putLog[j].complete >= 2
        /\ table[j].is_complete

\* C17: every stored record is complete exactly when it has an answer_text
C17_CompleteIffAnswered ==
    \A j \in DOMAIN table :
        table[j].is_complete <=> "answer_text" \in DOMAIN table[j]

\* the store holds a pending record without answer_text next to a complete record
\* with one
C17_Witness ==
    \E j, k \in DOMAIN table :
        /\ ~table[j].is_complete /\ "answer_text" \notin DOMAIN table[j]
        /\ table[k].is_complete /\ "answer_text" \in DOMAIN table[k]

\* the fields completion must leave alone
Identity(q) ==
    [query_id |-> q.query_id, create_time |-> q.create_time, query_text |-> q.query_text]

\* C18: every stored record stands under its own query_id with the create_time and
\* query_text its submission gave it and with no field beyond those of QueryModel;
\* the record a worker invocation holds has the id, create_time and query_text of a
\* payload that was sent; and only submitted ids ever have a record
C18_CompletionFrame ==
    /\ \A j \in DOMAIN table :
          /\ j \in JobIds
          /\ apiPc[j] # "idle"
          /\ Identity(table[j]) = Identity(newQuery[j])
          /\ DOMAIN table[j] \subseteq QueryFields
    /\ \A w \in Workers :
          wPc[w] \in {"put", "done"} =>
              \E m \in sent :
                  /\ Identity(wItem[w]) = Identity(m)
                  /\ Identity(m) = Identity(newQuery[m.query_id])
    /\ \A j \in JobIds :
          putLog[j].pending + putLog[j].complete > 0 => j \in DOMAIN table

\* a worker has completed one job while another submitted job is still pending
C18_Witness ==
    /\ workerName
    /\ \E j, k \in DOMAIN table :
          /\ j # k
          /\ table[j].is_complete
          /\ putLog[j].pending >= 1
          /\ ~table[k].is_complete
          /\ \E w \in Workers : wPc[w] = "done" /\ wItem[w].query_id = j

----------------------------------------------------------------------------
(* Properties of the chunk ids *)

\* a chunk without the id add_to_chroma gave it: source, page, kind, ordinal, payload
WithoutId(doc) ==
    Document(doc.page_content,
             [k \in DOMAIN doc.metadata \ {"id"} |-> doc.metadata[k]])

\* C19: in the batch of every add_to_chroma call, two chunks that differ in source,
\* page, kind, ordinal or payload have different ids
C19_DistinctUnitsDistinctIds ==
    \A i \in DOMAIN runs :
        runs[i].outcome # "load_raised" =>
            LET batch == BatchOf[runs[i].corpus, runs[i].seed]
            IN \A a, b \in DOMAIN batch :
                  WithoutId(batch[a]) # WithoutId(batch[b])
                  => batch[a].metadata.id # batch[b].metadata.id

----------------------------------------------------------------------------
(* Properties of retrieval failure *)

\* C20: a step in which an invocation ends with an exception before it had a
\* query_rag response (the endpoint without a worker, or a worker delivery) writes
\* nothing to the job store; the submitter of the inline path gets the error and its
\* job id has no record, then or later; the record of a job none of whose worker
\* deliveries finished is the pending record of its submission
C20_RetrievalFailureWritesNothing ==
    [][/\ ((\E w \in Workers : wPc[w] = "idle" /\ wPc'[w] = "raised")
           \/ (\E j \in JobIds : apiPc[j] = "idle" /\ apiPc'[j] = "raised"))
          => (table' = table /\ putLog' = putLog /\ sent' = sent)
       /\ \A j \in JobIds :
             (~workerName' /\ apiPc'[j] = "raised") =>
                 /\ j \notin DOMAIN table'
                 /\ apiResult'[j] = <<"error">>
       /\ \A j \in JobIds :
             (/\ workerName'
              /\ j \in DOMAIN table'
              /\ ~(\E w \in Workers : wPc'[w] = "done" /\ wItem'[w].query_id = j))
             => table'[j] = AsDdbItem(newQuery'[j])]_vars

\* a worker delivery ended in retrieval (no query_rag call has got past it) and the
\* job it was for is still stored pending
C20_Witness ==
    /\ workerName
    /\ ragLog = {}
    /\ \E w \in Workers : wPc[w] = "raised"
    /\ \E m \in sent :
          /\ m.query_id \in DOMAIN table
          /\ ~table[m.query_id].is_complete

\* without a worker, a submission ended in retrieval and left no record
C20_WitnessInline ==
    /\ ~workerName
    /\ \E j \in JobIds :
          /\ apiPc[j] = "raised"
          /\ ~(\E e \in ragLog : e.query_id = j)
          /\ j \notin DOMAIN table

----------------------------------------------------------------------------
(* Properties of the recorded sources *)

\* the ids of a ranked result list, first to last
IdsInRankOrder(results, sources) ==
    /\ Len(sources) = Len(results)
    /\ \A i \in 1..Len(results) : sources[i] = results[i].metadata.id

\* C21: the sources of every stored complete record, and of every record a handler
\* is about to write, are the ids of the results of a query_rag call made for that
\* job, one per result in rank order and at most k of them; this is so for calls
\* whose generation succeeded and for calls that fell back to the error answer
C21_SourcesAreRankedIds ==
    /\ \A j \in DOMAIN table :
          table[j].is_complete =>
              /\ Len(table[j].sources) <= TopK
              /\ \E e \in ragLog :
                    /\ e.query_id = j
                    /\ IdsInRankOrder(e.results, table[j].sources)
                    /\ table[j].answer_text = ResponseText(e.gen)
    /\ \A w \in Workers :
          wPc[w] = "put" =>
              \E e \in ragLog :
                  /\ e.query_id = wItem[w].query_id
                  /\ IdsInRankOrder(e.results, wItem[w].sources)
                  /\ wItem[w].answer_text = ResponseText(e.gen)

\* a job was completed with the error answer and carries the full k sources
C21_Witness ==
    \E j \in DOMAIN table :
        /\ table[j].is_complete
        /\ Len(table[j].sources) = TopK
        /\ table[j].sources[1] # table[j].sources[TopK]
        /\ table[j].answer_text[1] = "Error generating response: "

\* C22: for each job id, at most one write to the job store carries answer_text and
\* sources (a complete record), however many worker invocations the job gets
C22_AnswerSetOnce ==
    \A j \in JobIds : putLog[j].complete <= 1

====
